---- MODULE Spec2Model ----
(***************************************************************************)
(* Kitchen Display System (KDS) of the restaurant management backend:      *)
(* the order-item preparation handlers of backend/app/routers/kds.py over  *)
(* the rows declared in backend/app/models.py, with the order status and   *)
(* cancel handlers of backend/app/routers/orders.py and the Socket.IO      *)
(* connection registry of backend/app/websocket.py.                        *)
(*                                                                         *)
(* A column holding None is modelled by NULL (0); real ids and timestamps  *)
(* are positive, so Python truthiness ("if x", "not x") is x # NULL.       *)
(***************************************************************************)
EXTENDS Integers, Sequences, FiniteSets, TLC

VARIABLES items, orders, perf_log, now, nops, last,
          pitems, perf, ppc,
          stations, settings,
          sessions, tables, bills,
          sockets, connected_users, rooms

vars == <<items, orders, perf_log, now, nops, last, pitems, perf, ppc,
          stations, settings, sessions, tables, bills,
          sockets, connected_users, rooms>>
kdsVars == <<items, orders, perf_log, now, nops, last>>
perfVars == <<pitems, perf, ppc>>
stationVars == <<stations, settings>>
dbVars == <<sessions, tables, bills>>
sioVars == <<sockets, connected_users, rooms>>

\* ------------------------------------------------------------------ bounds
MaxTime == 2
MaxOps == 2
NumStations == 2
MaxPerfItems == 3

\* --------------------------------------------------------------- constants
NULL == 0
UNSET == -1

ItemIds == {1, 2, 3}
OrderIds == {1, 2}
\* ids that no row has
MissingItemId == Cardinality(ItemIds) + 1
MissingOrderId == Cardinality(OrderIds) + 1
StationIds == 1..NumStations
\* a station id that no row has, whatever stations are created
MissingStationId == NumStations + MaxOps + 1
\* the users of the kitchen floor, and every user of the system
Users == {1, 2}
AllUsers == {1, 2, 3, 4}

\* current_user.role: user 1 is a chef, user 2 is waiting staff, user 3 a
\* manager and user 4 an admin
UserRole(u) ==
    CASE u = 1 -> "chef"
      [] u = 2 -> "staff"
      [] u = 3 -> "manager"
      [] OTHER -> "admin"

\* order_items.order_id: order 1 has two items, order 2 has one
ItemOrder(i) == IF i = 3 THEN 2 ELSE 1

PrepStatuses == {"pending", "assigned", "preparing", "ready", "served", "cancelled"}

\* Order.order_items relationship
order_items(o, its) == {i \in ItemIds : its[i].order_id = o}

\* OrderItem declares no updated_at column, Order declares no table_number:
\* reading either attribute raises AttributeError (HTTP 500).
OrderItemHasUpdatedAt == FALSE
OrderHasTableNumber == FALSE

\* KitchenPerformanceLog.station_id is nullable=False: committing a row whose
\* station_id is None raises IntegrityError and the transaction is rolled back.
LogRowCommits(row) == row.station_id # NULL

KitchenPerformanceLog(station, item, action, chef, duration) ==
    [station_id |-> station, order_item_id |-> item, action |-> action,
     chef_id |-> chef, duration_seconds |-> duration]

\* the request handled last and its outcome (HTTP status, broadcast scheduled);
\* user is recorded by the handlers that test current_user.role
NoOp == [op |-> "none", item |-> NULL, order |-> NULL, user |-> NULL,
         station |-> NULL, prep_status |-> "unset", code |-> 0, broadcast |-> FALSE]

Response(op, item, order, user, station, st, code, bc) ==
    [op |-> op, item |-> item, order |-> order, user |-> NULL,
     station |-> station, prep_status |-> st, code |-> code, broadcast |-> bc]

\* the response of a handler that tests current_user.role
RoleResponse(op, item, order, user, station, code, bc) ==
    [Response(op, item, order, user, station, "unset", code, bc) EXCEPT !.user = user]

\* ------------------------------------------------------------------- Init
NewItem(i, s) ==
    [order_id |-> ItemOrder(i), quantity |-> 1, station_id |-> s,
     prep_status |-> "pending", prep_start_time |-> NULL,
     prep_end_time |-> NULL, assigned_chef_id |-> NULL]

\* every order of the model sits at the one table; an order row is created
\* with total_amount 0.0 and gets the sum of its item prices before the commit
TableIds == {1}
ItemPrice == 100
OrderTotal(o) == ItemPrice * Cardinality({i \in ItemIds : ItemOrder(i) = o})

NewOrder ==
    [status |-> "confirmed", kitchen_status |-> "pending",
     kitchen_received_at |-> NULL, all_items_ready_at |-> NULL,
     bumped_at |-> NULL, table_id |-> 1, total_amount |-> 0,
     started_at |-> NULL, completed_at |-> NULL]

\* an Optional value: None is the empty sequence, Some(x) holds x
None == <<>>
Some(x) == <<x>>

NoPerf == [station_id |-> NULL, on_time_count |-> 0, total_with_estimate |-> 0,
           on_time_percentage |-> None]

PerfIdle ==
    /\ pitems = <<>>
    /\ perf = NoPerf
    /\ ppc = "idle"

\* A request's database session (db: Session = Depends(get_db)): the rows it
\* loaded (snap_*), the same rows with its uncommitted changes (row_*), the
\* rows it added (log, bill), the table row it marked available, and the
\* position of the handler.  pc is "idle" before the request arrives.
SessionIds == 1..MaxOps

IdleSession ==
    [pc |-> "idle", op |-> "none", item |-> NULL, order |-> NULL, user |-> NULL,
     code |-> 0, snap_item |-> None, row_item |-> None, snap_order |-> None,
     row_order |-> None, log |-> <<>>, bill |-> None, table |-> NULL,
     commit_no |-> 0]

\* no request in flight; the table of the orders is occupied; no bill yet
DbInit ==
    /\ sessions = [r \in SessionIds |-> IdleSession]
    /\ tables = [t \in TableIds |-> "occupied"]
    /\ bills = <<>>

\* connected_users: Dict[str, Dict] = {}; no socket is in a room.  A sid
\* names one connection: "new" before it, "open" during it, "closed" after.
Sids == {1, 2}

SioInit ==
    /\ sockets = [s \in Sids |-> "new"]
    /\ connected_users = [s \in Sids |-> None]
    /\ rooms = {}

\* kitchen_stations rows (the id is the position) and their
\* ticket_display_settings row, if any
KitchenStation(name, active, t) ==
    [name |-> name, is_active |-> active, updated_at |-> t]

TicketDisplaySettings(font_size, t) == [font_size |-> font_size, updated_at |-> t]

SettingIds == StationIds \cup {MissingStationId}

\* the stations of the kitchen, as created; no display settings saved yet
StationsInit ==
    /\ stations = [s \in StationIds |-> KitchenStation(s, TRUE, NULL)]
    /\ settings = [s \in SettingIds |-> None]

\* Initial rows.  Order items are created pending, without station or chef;
\* orders are created with kitchen_status "pending" and, once confirmed, are
\* shown on the kitchen display.
\*   "fresh"    the rows as created
\*   "cooking"  after update(station_id) requests put items 1 and 3 at
\*              station 1 and item 2 at station 2, then start(1) and
\*              complete(1) by user 1 and start(2) by user 2, all at time 1
Scenarios == {"fresh", "cooking"}

ScenarioStation(sc, i) ==
    IF sc = "fresh" THEN NULL ELSE IF i = 2 THEN 2 ELSE 1

ScenarioItem(sc, i) ==
    IF sc = "cooking" /\ i \in {1, 2}
    THEN [NewItem(i, ScenarioStation(sc, i)) EXCEPT
            !.prep_status = IF i = 1 THEN "ready" ELSE "preparing",
            !.prep_start_time = 1,
            !.prep_end_time = IF i = 1 THEN 1 ELSE NULL,
            !.assigned_chef_id = i]
    ELSE NewItem(i, ScenarioStation(sc, i))

ScenarioOrder(sc, o) ==
    IF sc = "cooking" /\ o = 1
    THEN [NewOrder EXCEPT !.kitchen_status = "in_progress",
                          !.kitchen_received_at = 1,
                          !.total_amount = OrderTotal(o)]
    ELSE [NewOrder EXCEPT !.total_amount = OrderTotal(o)]

ScenarioLog(sc) ==
    IF sc = "cooking"
    THEN <<KitchenPerformanceLog(1, 1, "completed", 1, 0)>>
    ELSE <<>>

Init ==
    /\ \E sc \in Scenarios :
          /\ items = [i \in ItemIds |-> ScenarioItem(sc, i)]
          /\ orders = [o \in OrderIds |-> ScenarioOrder(sc, o)]
          /\ perf_log = ScenarioLog(sc)
    /\ now = 1
    /\ nops = 0
    /\ last = NoOp
    /\ PerfIdle
    /\ StationsInit
    /\ DbInit
    /\ SioInit

\* datetime.utcnow() is non-decreasing; time passes between requests
Tick ==
    /\ now < MaxTime
    /\ now' = now + 1
    /\ UNCHANGED <<items, orders, perf_log, nops, last, perfVars, stationVars,
                 dbVars, sioVars>>

\* an unknown item id: every item handler answers 404 and changes nothing
ItemNotFound(op, i, u) ==
    /\ i \notin ItemIds
    /\ last' = Response(op, i, NULL, u, NULL, "unset", 404, FALSE)
    /\ UNCHANGED <<items, orders, perf_log>>

\* ------------------------------------------------- POST /items/{id}/start
StartedItem_assigned(it, t, u) ==
    [it EXCEPT !.prep_status = "assigned", !.prep_start_time = t,
               !.assigned_chef_id = u]

StartedItem(it, t, u) ==
    [it EXCEPT !.prep_status = "preparing", !.prep_start_time = t,
               !.assigned_chef_id = u]

StartedOrder_always(ord, t) ==
    [ord EXCEPT !.kitchen_status = "in_progress", !.kitchen_received_at = t]

\* if order.kitchen_status == "pending": received, kitchen_received_at = now
\* if order.kitchen_status == "received": in_progress
StartedOrder(ord, t) ==
    LET k1 == ord.kitchen_status
        k2 == IF k1 = "pending" THEN "received" ELSE k1
        k3 == IF k2 = "received" THEN "in_progress" ELSE k2
    IN [ord EXCEPT !.kitchen_status = k3,
                   !.kitchen_received_at = IF k1 = "pending" THEN t ELSE @]

start_item_preparation(i, u) ==
    /\ nops < MaxOps
    /\ nops' = nops + 1
    /\ UNCHANGED <<now, perfVars, stationVars, dbVars, sioVars>>
    /\ \/ ItemNotFound("start", i, u)
       \/ /\ i \in ItemIds
          /\ LET o == items[i].order_id
             IN /\ items' = [items EXCEPT ![i] = StartedItem(@, now, u)]
                /\ orders' = [orders EXCEPT ![o] = StartedOrder(@, now)]
                /\ UNCHANGED perf_log
                /\ last' = Response("start", i, o, u, NULL, "unset",
                                    IF OrderItemHasUpdatedAt THEN 200 ELSE 500,
                                    OrderItemHasUpdatedAt)

\* Order aggregate recomputation: all(oi.prep_status == "ready" for oi in order.order_items)
all_ready_any(o, its) == \E j \in order_items(o, its) : its[j].prep_status = "ready"

all_ready(o, its) == \A j \in order_items(o, its) : its[j].prep_status = "ready"

\* ---------------------------------------------- POST /items/{id}/complete
CompletedItem_localtime(it, t) ==
    [it EXCEPT !.prep_status = "ready", !.prep_end_time = t - 1]

CompletedItem(it, t) ==
    [it EXCEPT !.prep_status = "ready", !.prep_end_time = t]

\* the rows and the outcome that complete of the existing item i leaves
complete_effect(i, u) ==
    LET o == items[i].order_id
        its == [items EXCEPT ![i] = CompletedItem(@, now)]
        logged == its[i].prep_start_time # NULL /\ its[i].station_id # NULL
    IN [items |-> its,
        perf_log |->
            IF logged
            THEN Append(perf_log,
                   KitchenPerformanceLog(its[i].station_id, i, "completed", u,
                                         now - its[i].prep_start_time))
            ELSE perf_log,
        orders |->
            IF all_ready(o, its)
            THEN [orders EXCEPT ![o].all_items_ready_at = now,
                                ![o].kitchen_status = "all_ready",
                                ![o].status = "ready"]
            ELSE orders,
        code |-> IF OrderItemHasUpdatedAt THEN 200 ELSE 500,
        broadcast |-> OrderItemHasUpdatedAt]

complete_item_preparation(i, u) ==
    /\ nops < MaxOps
    /\ nops' = nops + 1
    /\ UNCHANGED <<now, perfVars, stationVars, dbVars, sioVars>>
    /\ \/ ItemNotFound("complete", i, u)
       \/ /\ i \in ItemIds
          /\ \E e \in {complete_effect(i, u)} :
                /\ items' = e.items
                /\ perf_log' = e.perf_log
                /\ orders' = e.orders
                /\ last' = Response("complete", i, items[i].order_id, u, NULL, "unset",
                                    e.code, e.broadcast)

\* ------------------------------------------------ PUT /items/{id}/status
\* status_update carries prep_status and/or station_id (UNSET: key absent)
\* the rows and the outcome that update of the existing item i leaves
update_effect(i, u, st, sid) ==
    LET o == items[i].order_id
        \* setattr(item, key, value) for every key that was sent
        it1 == [items[i] EXCEPT
                  !.prep_status = IF st = "unset" THEN @ ELSE st,
                  !.station_id = IF sid = UNSET THEN @ ELSE sid]
        setStart == st = "preparing" /\ it1.prep_start_time = NULL
        setEnd == st = "ready" /\ it1.prep_end_time = NULL
        it2 == [it1 EXCEPT
                  !.prep_start_time = IF setStart THEN now ELSE @,
                  !.prep_end_time = IF setEnd THEN now ELSE @]
        logged == setEnd /\ it2.prep_start_time # NULL
        row == KitchenPerformanceLog(it2.station_id, i, "completed", u,
                                     now - it2.prep_start_time)
        it3 == [it2 EXCEPT
                  !.assigned_chef_id =
                      IF @ = NULL /\ st = "preparing" THEN u ELSE @]
        its == [items EXCEPT ![i] = it3]
    IN IF logged /\ ~LogRowCommits(row)
       THEN \* db.commit() raises, nothing is persisted
            [items |-> items, perf_log |-> perf_log, orders |-> orders,
             code |-> 500, broadcast |-> FALSE]
       ELSE [items |-> its,
             perf_log |-> IF logged THEN Append(perf_log, row) ELSE perf_log,
             orders |->
                 \* the order is re-read after the broadcast is scheduled;
                 \* item.updated_at raises before that
                 IF /\ OrderItemHasUpdatedAt
                    /\ all_ready(o, its) /\ orders[o].all_items_ready_at = NULL
                 THEN [orders EXCEPT ![o].all_items_ready_at = now,
                                     ![o].kitchen_status = "all_ready",
                                     ![o].status = "ready"]
                 ELSE orders,
             code |-> IF OrderItemHasUpdatedAt THEN 200 ELSE 500,
             broadcast |-> OrderItemHasUpdatedAt]

update_item_status(i, u, st, sid) ==
    /\ nops < MaxOps
    /\ nops' = nops + 1
    /\ UNCHANGED <<now, perfVars, stationVars, dbVars, sioVars>>
    /\ \/ ItemNotFound("update", i, u)
       \/ /\ i \in ItemIds
          /\ \E e \in {update_effect(i, u, st, sid)} :
                /\ items' = e.items
                /\ perf_log' = e.perf_log
                /\ orders' = e.orders
                /\ last' = Response("update", i, items[i].order_id, u, sid, st,
                                    e.code, e.broadcast)

\* ------------------------------------------------------ GET /orders/active
\* The ids of the orders the kitchen display lists.  status_filter = NULL: no
\* filter (orders not yet bumped); station_id = NULL: every station.
get_active_orders(ords, its, station_id, status_filter) ==
    {o \in OrderIds :
        /\ ords[o].status \in {"confirmed", "preparing", "ready"}
        /\ IF status_filter # NULL
           THEN ords[o].kitchen_status = status_filter
           ELSE ords[o].kitchen_status \in
                    {"pending", "received", "in_progress", "all_ready"}
        /\ station_id # NULL
              => \E j \in order_items(o, its) : its[j].station_id = station_id}

\* ------------------------------------------------ POST /orders/{id}/bump
Served(it) == [it EXCEPT !.prep_status = "served"]

BumpStation_nofilter(o, sid, its) ==
    [j \in ItemIds |-> IF j \in order_items(o, its) THEN Served(its[j]) ELSE its[j]]

\* items = [item for item in order.order_items if item.station_id == station_id]
BumpStation(o, sid, its) ==
    [j \in ItemIds |->
        IF j \in order_items(o, its) /\ its[j].station_id = sid
        THEN Served(its[j]) ELSE its[j]]

BumpAll_readyonly(o, its) ==
    [j \in ItemIds |->
        IF j \in order_items(o, its) /\ its[j].prep_status = "ready"
        THEN Served(its[j]) ELSE its[j]]

\* for item in order.order_items: item.prep_status = "served"
BumpAll(o, its) ==
    [j \in ItemIds |-> IF j \in order_items(o, its) THEN Served(its[j]) ELSE its[j]]

\* sid = NULL: no bump_request, or one without station_id
bump_order(o, u, sid) ==
    /\ nops < MaxOps
    /\ nops' = nops + 1
    /\ UNCHANGED <<now, perfVars, stationVars, dbVars, sioVars>>
    /\ \/ /\ o \notin OrderIds
          /\ last' = Response("bump", NULL, o, u, sid, "unset", 404, FALSE)
          /\ UNCHANGED <<items, orders, perf_log>>
       \/ /\ o \in OrderIds
          /\ IF sid # NULL
             THEN /\ items' = BumpStation(o, sid, items)
                  /\ UNCHANGED orders
             ELSE /\ orders' = [orders EXCEPT ![o].bumped_at = now,
                                              ![o].kitchen_status = "bumped"]
                  /\ items' = BumpAll(o, items)
          /\ UNCHANGED perf_log
          /\ last' = Response("bump", NULL, o, u, sid, "unset",
                              IF OrderHasTableNumber THEN 200 ELSE 500,
                              OrderHasTableNumber)

\* -------------------------------------------------- POST /items/reassign
CanReassign(u) == UserRole(u) \in {"admin", "manager", "chef"}

ReassignLog_newstation(log, old_station_id, new_station_id, i, u) ==
    IF old_station_id # NULL
    THEN Append(log, KitchenPerformanceLog(new_station_id, i, "reassigned", u, NULL))
    ELSE log

\* the row is written against the station the item is leaving
ReassignLog(log, old_station_id, new_station_id, i, u) ==
    IF old_station_id # NULL
    THEN Append(log, KitchenPerformanceLog(old_station_id, i, "reassigned", u, NULL))
    ELSE log

reassign_item(i, u, new_station_id, new_chef_id) ==
    /\ nops < MaxOps
    /\ nops' = nops + 1
    /\ UNCHANGED <<now, perfVars, stationVars, dbVars, sioVars>>
    /\ \/ /\ ~CanReassign(u)
          /\ last' = RoleResponse("reassign", i, NULL, u, new_station_id, 403, FALSE)
          /\ UNCHANGED <<items, orders, perf_log>>
       \/ /\ CanReassign(u)
          /\ i \notin ItemIds
          /\ last' = RoleResponse("reassign", i, NULL, u, new_station_id, 404, FALSE)
          /\ UNCHANGED <<items, orders, perf_log>>
       \/ /\ CanReassign(u)
          /\ i \in ItemIds
          /\ LET old_station_id == items[i].station_id
             IN /\ items' = [items EXCEPT
                       ![i].station_id = new_station_id,
                       ![i].assigned_chef_id =
                           IF new_chef_id # NULL THEN new_chef_id ELSE @]
                /\ perf_log' = ReassignLog(perf_log, old_station_id, new_station_id, i, u)
                /\ UNCHANGED orders
                /\ last' = RoleResponse("reassign", i, items[i].order_id, u,
                                        new_station_id,
                                        IF OrderItemHasUpdatedAt THEN 200 ELSE 500,
                                        OrderItemHasUpdatedAt)

\* ------------------------------------------------------ GET /stations/{id}
StationExists(station_id) == station_id \in 1..Len(stations)

StationNotFound_deactivates(op, station_id, u) ==
    /\ ~StationExists(station_id)
    /\ last' = RoleResponse(op, NULL, NULL, u, station_id, 404, FALSE)
    /\ stations' = [s \in 1..Len(stations) |-> [stations[s] EXCEPT !.is_active = FALSE]]
    /\ UNCHANGED settings

\* an unknown station id: the station handlers answer 404 and change nothing
StationNotFound(op, station_id, u) ==
    /\ ~StationExists(station_id)
    /\ last' = RoleResponse(op, NULL, NULL, u, station_id, 404, FALSE)
    /\ UNCHANGED stationVars

get_station(station_id) ==
    /\ nops < MaxOps
    /\ nops' = nops + 1
    /\ UNCHANGED <<now, perfVars, items, orders, perf_log, dbVars, sioVars>>
    /\ \/ StationNotFound("get_station", station_id, NULL)
       \/ /\ StationExists(station_id)
          /\ last' = RoleResponse("get_station", NULL, NULL, NULL, station_id, 200, FALSE)
          /\ UNCHANGED stationVars

\* ----------------------------------------- POST /stations, PUT /stations/{id}
CanConfigure_chef(u) == UserRole(u) \in {"admin", "manager", "chef"}

\* current_user.role in ['admin', 'manager']
CanConfigure(u) == UserRole(u) \in {"admin", "manager"}

Forbidden(op, station_id, u) ==
    /\ ~CanConfigure(u)
    /\ last' = RoleResponse(op, NULL, NULL, u, station_id, 403, FALSE)
    /\ UNCHANGED stationVars

\* kitchen_stations.name is unique: committing a second row of the same name
\* raises IntegrityError and nothing is persisted
create_station(u, name) ==
    /\ nops < MaxOps
    /\ nops' = nops + 1
    /\ UNCHANGED <<now, perfVars, items, orders, perf_log, dbVars, sioVars>>
    /\ \/ Forbidden("create_station", NULL, u)
       \/ /\ CanConfigure(u)
          /\ IF \E s \in 1..Len(stations) : stations[s].name = name
             THEN /\ last' = RoleResponse("create_station", NULL, NULL, u, NULL, 500, FALSE)
                  /\ UNCHANGED stationVars
             ELSE /\ stations' = Append(stations, KitchenStation(name, TRUE, NULL))
                  /\ last' = RoleResponse("create_station", NULL, NULL, u,
                                          Len(stations) + 1, 200, FALSE)
                  /\ UNCHANGED settings

\* station_update carries is_active alone
update_station(station_id, u, active) ==
    /\ nops < MaxOps
    /\ nops' = nops + 1
    /\ UNCHANGED <<now, perfVars, items, orders, perf_log, dbVars, sioVars>>
    /\ \/ Forbidden("update_station", station_id, u)
       \/ /\ CanConfigure(u)
          /\ StationNotFound("update_station", station_id, u)
       \/ /\ CanConfigure(u)
          /\ StationExists(station_id)
          /\ stations' = [stations EXCEPT ![station_id].is_active = active,
                                          ![station_id].updated_at = now]
          /\ last' = RoleResponse("update_station", NULL, NULL, u, station_id, 200, FALSE)
          /\ UNCHANGED settings

\* --------------------------------------------- PUT /stations/{id}/settings
\* The handler does not look the station up.  ticket_display_settings.station_id
\* is a foreign key: whether a row for an unknown station commits depends on
\* the database enforcing foreign keys (fk).
update_display_settings(station_id, u, font_size, fk) ==
    /\ nops < MaxOps
    /\ nops' = nops + 1
    /\ UNCHANGED <<now, perfVars, items, orders, perf_log, dbVars, sioVars>>
    /\ \/ Forbidden("update_display_settings", station_id, u)
       \/ /\ CanConfigure(u)
          /\ IF settings[station_id] = None /\ ~StationExists(station_id) /\ fk
             THEN /\ last' = RoleResponse("update_display_settings", NULL, NULL, u,
                                          station_id, 500, FALSE)
                  /\ UNCHANGED stationVars
             ELSE /\ settings' =
                       [settings EXCEPT ![station_id] =
                           IF @ = None
                           THEN Some(TicketDisplaySettings(font_size, NULL))
                           ELSE Some(TicketDisplaySettings(font_size, now))]
                  /\ last' = RoleResponse("update_display_settings", NULL, NULL, u,
                                          station_id, 200, FALSE)
                  /\ UNCHANGED stations

ReqItemIds == ItemIds \cup {MissingItemId}
ReqOrderIds == OrderIds \cup {MissingOrderId}

\* the prep_status values that requests send
SentStatuses == PrepStatuses \ {"assigned", "served"}

\* status_update payloads: prep_status alone or station_id alone
StatusUpdates ==
    {<<st, UNSET>> : st \in SentStatuses}
    \cup {<<"unset", sid>> : sid \in StationIds}

Next ==
    \/ Tick
    \/ \E i \in ReqItemIds, u \in Users : start_item_preparation(i, u)
    \/ \E i \in ReqItemIds, u \in Users : complete_item_preparation(i, u)
    \/ \E i \in ReqItemIds, u \in Users, p \in StatusUpdates :
          update_item_status(i, u, p[1], p[2])
    \/ \E o \in ReqOrderIds, sid \in StationIds \cup {NULL} :
          bump_order(o, 1, sid)
    \/ \E i \in ReqItemIds, u \in Users, s \in StationIds, c \in {NULL, 1} :
          reassign_item(i, u, s, c)

Spec == Init /\ [][Next]_vars

\* ============================================ GET /stations/{id}/performance
\* Times of this part are in seconds; percentages are in tenths of a percent
\* (round(x, 1) keeps one decimal).
GraceMinutes == 5
SecondsPerMinute == 60
\* today_start: midnight of the current day
today_start == 86400
T0 == today_start + 3600

PerfRow(station, st, start, end, est) ==
    [station_id |-> station, prep_status |-> st, prep_start_time |-> start,
     prep_end_time |-> end, estimated_prep_time |-> est]

\* order_items rows the computation is tried on: preparations of 12, 15,
\* 15:01 and 16 minutes against a 10-minute estimate and of 6 and 6:01 minutes
\* against a 1-minute estimate, and rows that the query or the loop skips
PerfRows ==
    {PerfRow(1, "ready", T0, T0 + d, 10) : d \in {720, 900, 901, 960}}
    \cup {PerfRow(1, "ready", T0, T0 + d, 1) : d \in {360, 361}}
    \cup {PerfRow(1, "ready", NULL, T0 + 720, 10),
          PerfRow(1, "ready", T0, T0 + 720, NULL),
          PerfRow(1, "preparing", T0, NULL, 10),
          PerfRow(2, "ready", T0, T0 + 720, 10),
          PerfRow(1, "served", T0, T0 + 720, 10),
          PerfRow(1, "ready", today_start - 780, today_start - 60, 10)}

SeqsUpTo(S, n) == UNION {[1..k -> S] : k \in 0..n}

\* round(x, 1) of x = num / den * 100, in tenths of a percent (ties to even)
RoundTenths(num, den) ==
    LET q == (1000 * num) \div den
        r == (1000 * num) % den
    IN IF 2 * r > den \/ (2 * r = den /\ q % 2 = 1) THEN q + 1 ELSE q

\* the query of lines 597-602
completed_items(rows, station_id) ==
    {k \in 1..Len(rows) :
        /\ rows[k].station_id = station_id
        /\ rows[k].prep_status = "ready"
        /\ rows[k].prep_end_time # NULL
        /\ rows[k].prep_end_time >= today_start
        /\ rows[k].estimated_prep_time # NULL}

\* if item.prep_start_time and item.prep_end_time and item.estimated_prep_time
HasEstimate(row) ==
    /\ row.prep_start_time # NULL
    /\ row.prep_end_time # NULL
    /\ row.estimated_prep_time # NULL

OnTime_nograce(row) ==
    row.prep_end_time - row.prep_start_time
        <= row.estimated_prep_time * SecondsPerMinute

\* actual_minutes <= item.estimated_prep_time + 5, with
\* actual_minutes = total_seconds() / 60
OnTime(row) ==
    row.prep_end_time - row.prep_start_time
        <= (row.estimated_prep_time + GraceMinutes) * SecondsPerMinute

station_performance(rows, station_id) ==
    LET counted == {k \in completed_items(rows, station_id) : HasEstimate(rows[k])}
        on_time_count == Cardinality({k \in counted : OnTime(rows[k])})
        total_with_estimate == Cardinality(counted)
    IN [station_id |-> station_id,
        on_time_count |-> on_time_count,
        total_with_estimate |-> total_with_estimate,
        on_time_percentage |->
            IF total_with_estimate > 0
            THEN Some(RoundTenths(on_time_count, total_with_estimate))
            ELSE None]

InitPerf ==
    /\ items = [i \in ItemIds |-> ScenarioItem("fresh", i)]
    /\ orders = [o \in OrderIds |-> ScenarioOrder("fresh", o)]
    /\ perf_log = <<>>
    /\ now = 1
    /\ nops = 0
    /\ last = NoOp
    /\ pitems \in SeqsUpTo(PerfRows, MaxPerfItems)
    /\ perf = NoPerf
    /\ ppc = "idle"
    /\ StationsInit
    /\ DbInit
    /\ SioInit

get_station_performance(station_id) ==
    /\ UNCHANGED <<now, items, orders, perf_log, pitems, dbVars, sioVars>>
    /\ \/ /\ nops < MaxOps
          /\ nops' = nops + 1
          /\ StationNotFound("get_station_performance", station_id, NULL)
          /\ UNCHANGED <<perf, ppc>>
       \/ /\ StationExists(station_id)
          /\ ppc = "idle"
          /\ perf' = station_performance(pitems, station_id)
          /\ ppc' = "done"
          /\ UNCHANGED <<nops, last, stationVars>>

NextPerf == \E s \in StationIds : get_station_performance(s)

SpecPerf == InitPerf /\ [][NextPerf]_vars

\* ===================================== station configuration and not-found
\* Requests of every role, with the station handlers; the item handlers are
\* driven by chef 1 with the payloads that complete items.
ReqStationIds == StationIds \cup {MissingStationId}
CreateNames == {1, NumStations + 1}
FontSizes == {"large"}

NextStations ==
    \/ Tick
    \/ \E i \in ReqItemIds : start_item_preparation(i, 1)
    \/ \E i \in ReqItemIds : complete_item_preparation(i, 1)
    \/ \E i \in ReqItemIds : update_item_status(i, 1, "ready", UNSET)
    \/ \E o \in ReqOrderIds : bump_order(o, 1, NULL)
    \/ \E i \in ReqItemIds, u \in AllUsers : reassign_item(i, u, NumStations, NULL)
    \/ \E s \in ReqStationIds : get_station(s)
    \/ \E u \in AllUsers, n \in CreateNames : create_station(u, n)
    \/ \E s \in ReqStationIds, u \in AllUsers : update_station(s, u, FALSE)
    \/ \E s \in SettingIds, u \in AllUsers, f \in FontSizes, fk \in BOOLEAN :
          update_display_settings(s, u, f, fk)
    \/ get_station_performance(MissingStationId)

SpecStations == Init /\ [][NextStations]_vars

\* ================================== orders.py: order status, cancel, bills
\* Every request of orders.py and kds.py works in its own database session.
\* Where the order of the reads and commits of two requests matters, a
\* handler is taken in steps: it loads rows and changes them in its session,
\* and db.commit() writes the columns it changed (an UPDATE names only the
\* attributes whose value differs from the loaded one).
InFlight == Cardinality({r \in SessionIds : sessions[r].pc \notin {"idle", "done"}})

\* the session of the next request
NextSession == 1 + Cardinality({r \in SessionIds : sessions[r].pc # "idle"})

Merge(cur, snap, row) ==
    [f \in DOMAIN cur |-> IF row[f] # snap[f] THEN row[f] ELSE cur[f]]

\* the session r after its last step, answered with code: get_db closes the
\* session and its rows are gone
Done(r, code) ==
    [IdleSession EXCEPT
       !.pc = "done", !.op = sessions[r].op, !.item = sessions[r].item,
       !.order = sessions[r].order, !.user = sessions[r].user, !.code = code,
       !.commit_no = 1 + Cardinality({q \in SessionIds : sessions[q].commit_no > 0})]

OrderStatuses ==
    {"pending", "confirmed", "preparing", "ready", "served", "completed", "cancelled"}

\* the other orders of the table of order o that still hold the table
other_active(ords, o) ==
    {p \in OrderIds \ {o} :
        /\ ords[p].table_id = ords[o].table_id
        /\ ords[p].status \in {"pending", "confirmed", "preparing", "ready", "served"}}

\* the auto-generated bill: 5% tax on the order's total_amount
TaxPercentage == 5

Bill(order_id, subtotal) ==
    [order_id |-> order_id, subtotal |-> subtotal,
     tax |-> (subtotal * TaxPercentage) \div 100,
     total |-> subtotal + (subtotal * TaxPercentage) \div 100]

existing_bill(bs, order_id) == \E k \in 1..Len(bs) : bs[k].order_id = order_id

BillCommits_nounique(bs, bill) == TRUE

\* bills.order_id is unique: the INSERT of a second bill of an order fails
BillCommits(bs, bill) == ~existing_bill(bs, bill.order_id)

OrderNotFound(op, o) ==
    /\ o \notin OrderIds
    /\ nops' = nops + 1
    /\ last' = Response(op, NULL, o, NULL, NULL, "unset", 404, FALSE)
    /\ UNCHANGED <<orders, tables, bills, sessions>>

\* --------------------------------------------- PATCH /orders/{id}/status
\* up to db.flush(): the order is loaded and changed, the bill is added
update_order_status_begin(o, new_status) ==
    /\ nops + InFlight < MaxOps
    /\ UNCHANGED <<now, items, perf_log, perfVars, stationVars, sioVars>>
    /\ \/ OrderNotFound("update_order_status", o)
       \/ /\ o \in OrderIds
          /\ LET ord == orders[o]
                 row == [ord EXCEPT
                           !.status = new_status,
                           !.started_at =
                               IF new_status = "preparing" /\ @ = NULL THEN now ELSE @,
                           !.completed_at =
                               IF new_status = "completed" THEN now ELSE @]
                 bill == IF new_status = "served" /\ ~existing_bill(bills, o)
                         THEN Some(Bill(o, ord.total_amount))
                         ELSE None
                 table == IF /\ new_status = "completed"
                             /\ ord.table_id # NULL
                             /\ other_active(orders, o) = {}
                          THEN ord.table_id
                          ELSE NULL
             IN sessions' = [sessions EXCEPT ![NextSession] =
                               [IdleSession EXCEPT
                                  !.pc = "dirty", !.op = "update_order_status",
                                  !.order = o, !.snap_order = ord,
                                  !.row_order = row, !.bill = bill,
                                  !.table = table]]
          /\ UNCHANGED <<nops, last, orders, tables, bills>>

\* db.commit() and the broadcasts; an IntegrityError rolls the session back
update_order_status_commit(r) ==
    /\ nops < MaxOps
    /\ nops' = nops + 1
    /\ sessions[r].pc = "dirty"
    /\ sessions[r].op = "update_order_status"
    /\ UNCHANGED <<now, items, perf_log, perfVars, stationVars, sioVars>>
    /\ LET s == sessions[r]
           o == s.order
       IN IF s.bill = None \/ BillCommits(bills, s.bill[1])
          THEN /\ orders' = [orders EXCEPT ![o] = Merge(@, s.snap_order, s.row_order)]
               /\ bills' = IF s.bill = None THEN bills ELSE Append(bills, s.bill[1])
               /\ tables' = IF s.table = NULL THEN tables
                            ELSE [tables EXCEPT ![s.table] = "available"]
               /\ sessions' = [sessions EXCEPT ![r] = Done(r, 200)]
               /\ last' = Response("update_order_status", NULL, o, NULL, NULL,
                                   "unset", 200, TRUE)
          ELSE /\ UNCHANGED <<orders, bills, tables>>
               /\ sessions' = [sessions EXCEPT ![r] = Done(r, 500)]
               /\ last' = Response("update_order_status", NULL, o, NULL, NULL,
                                   "unset", 500, FALSE)

\* ------------------------------------------------- DELETE /orders/{id}
CanCancel_preparing(ord) == ord.status \in {"pending", "confirmed", "preparing"}

CanCancel(ord) == ord.status \in {"pending", "confirmed"}

cancel_order(o) ==
    /\ nops < MaxOps
    /\ UNCHANGED <<now, items, perf_log, perfVars, stationVars, sioVars,
                   sessions, bills>>
    /\ \/ OrderNotFound("cancel_order", o)
       \/ /\ o \in OrderIds
          /\ nops' = nops + 1
          /\ IF CanCancel(orders[o])
             THEN /\ orders' = [orders EXCEPT ![o].status = "cancelled"]
                  /\ tables' =
                       IF orders[o].table_id # NULL /\ other_active(orders, o) = {}
                       THEN [tables EXCEPT ![orders[o].table_id] = "available"]
                       ELSE tables
                  /\ last' = Response("cancel_order", NULL, o, NULL, NULL,
                                      "unset", 200, FALSE)
             ELSE /\ UNCHANGED <<orders, tables>>
                  /\ last' = Response("cancel_order", NULL, o, NULL, NULL,
                                      "unset", 400, FALSE)

\* the order handlers on their own
NextOrders ==
    \/ \E o \in ReqOrderIds, st \in OrderStatuses : update_order_status_begin(o, st)
    \/ \E r \in SessionIds : update_order_status_commit(r)
    \/ \E o \in ReqOrderIds : cancel_order(o)

SpecOrders == Init /\ [][NextOrders]_vars

\* the order handlers next to start and complete of the kitchen display,
\* driven by chef 1
NextKitchenOrders ==
    \/ Tick
    \/ \E o \in OrderIds, st \in OrderStatuses : update_order_status_begin(o, st)
    \/ \E r \in SessionIds : update_order_status_commit(r)
    \/ \E o \in OrderIds : cancel_order(o)
    \/ \E i \in ItemIds : start_item_preparation(i, 1)
    \/ \E i \in ItemIds : complete_item_preparation(i, 1)

SpecKitchenOrders == Init /\ [][NextKitchenOrders]_vars

\* ================================= kds.py: item handlers of two requests
\* start, complete and update(prep_status = "ready") taken in steps, so that
\* the reads and commits of two requests can fall in any order.  A finished
\* request keeps the rows it had loaded (snap_item, snap_order) on record.
Answered(r, code) ==
    [Done(r, code) EXCEPT !.snap_item = sessions[r].snap_item,
                          !.snap_order = sessions[r].snap_order]

\* the request is answered 404 at once
SessionItemNotFound(op, i, u) ==
    /\ ItemNotFound(op, i, u)
    /\ nops' = nops + 1
    /\ UNCHANGED sessions

\* lines 330-346: the item and its order are loaded and changed
start_read(i, u) ==
    /\ nops + InFlight < MaxOps
    /\ UNCHANGED <<now, perfVars, stationVars, sioVars, tables, bills>>
    /\ \/ SessionItemNotFound("start", i, u)
       \/ /\ i \in ItemIds
          /\ LET o == items[i].order_id
             IN sessions' = [sessions EXCEPT ![NextSession] =
                               [IdleSession EXCEPT
                                  !.pc = "dirty", !.op = "start", !.item = i,
                                  !.order = o, !.user = u,
                                  !.snap_item = items[i],
                                  !.row_item = StartedItem(items[i], now, u),
                                  !.snap_order = orders[o],
                                  !.row_order = StartedOrder(orders[o], now)]]
          /\ UNCHANGED <<items, orders, perf_log, nops, last>>

\* line 348: db.commit(); the response then reads item.updated_at
start_commit(r) ==
    /\ sessions[r].pc = "dirty"
    /\ sessions[r].op = "start"
    /\ nops' = nops + 1
    /\ UNCHANGED <<now, perf_log, perfVars, stationVars, sioVars, tables, bills>>
    /\ LET s == sessions[r]
       IN /\ items' = [items EXCEPT ![s.item] = Merge(@, s.snap_item, s.row_item)]
          /\ orders' = [orders EXCEPT ![s.order] = Merge(@, s.snap_order, s.row_order)]
          /\ sessions' = [sessions EXCEPT ![r] =
                            Answered(r, IF OrderItemHasUpdatedAt THEN 200 ELSE 500)]
          /\ last' = Response("start", s.item, s.order, s.user, NULL, "unset",
                              IF OrderItemHasUpdatedAt THEN 200 ELSE 500,
                              OrderItemHasUpdatedAt)

\* complete, lines 375-393, and update with prep_status "ready", lines
\* 258-288: the session after the item is loaded and changed and the log
\* row is added
ReadySession(op, i, u) ==
    LET it == items[i]
        setEnd == op = "complete" \/ it.prep_end_time = NULL
        row == IF setEnd THEN CompletedItem(it, now)
               ELSE [it EXCEPT !.prep_status = "ready"]
        logged == IF op = "complete"
                  THEN it.prep_start_time # NULL /\ it.station_id # NULL
                  ELSE setEnd /\ it.prep_start_time # NULL
    IN [IdleSession EXCEPT
          !.pc = "dirty", !.op = op, !.item = i, !.order = it.order_id,
          !.user = u, !.snap_item = it, !.row_item = row,
          !.log = IF logged
                  THEN <<KitchenPerformanceLog(it.station_id, i, "completed", u,
                                               now - it.prep_start_time)>>
                  ELSE <<>>]

complete_read(i, u) ==
    /\ nops + InFlight < MaxOps
    /\ UNCHANGED <<now, perfVars, stationVars, sioVars, tables, bills>>
    /\ \/ SessionItemNotFound("complete", i, u)
       \/ /\ i \in ItemIds
          /\ sessions' = [sessions EXCEPT ![NextSession] = ReadySession("complete", i, u)]
          /\ UNCHANGED <<items, orders, perf_log, nops, last>>

update_read(i, u) ==
    /\ nops + InFlight < MaxOps
    /\ UNCHANGED <<now, perfVars, stationVars, sioVars, tables, bills>>
    /\ \/ SessionItemNotFound("update", i, u)
       \/ /\ i \in ItemIds
          /\ sessions' = [sessions EXCEPT ![NextSession] = ReadySession("update", i, u)]
          /\ UNCHANGED <<items, orders, perf_log, nops, last>>

\* complete, line 395: db.commit() of the item and the log row
complete_commit(r) ==
    /\ sessions[r].pc = "dirty"
    /\ sessions[r].op = "complete"
    /\ UNCHANGED <<now, nops, last, orders, perfVars, stationVars, sioVars,
                   tables, bills>>
    /\ LET s == sessions[r]
       IN /\ items' = [items EXCEPT ![s.item] = Merge(@, s.snap_item, s.row_item)]
          /\ perf_log' = perf_log \o s.log
          /\ sessions' = [sessions EXCEPT ![r].pc = "committed"]

\* update, line 290: db.commit(); a log row without station fails it; the
\* response then reads item.updated_at, before the order is looked at
update_commit(r) ==
    /\ sessions[r].pc = "dirty"
    /\ sessions[r].op = "update"
    /\ UNCHANGED <<now, orders, perfVars, stationVars, sioVars, tables, bills>>
    /\ LET s == sessions[r]
       IN IF \E k \in 1..Len(s.log) : ~LogRowCommits(s.log[k])
          THEN /\ UNCHANGED <<items, perf_log>>
               /\ nops' = nops + 1
               /\ sessions' = [sessions EXCEPT ![r] = Answered(r, 500)]
               /\ last' = Response("update", s.item, s.order, s.user, UNSET,
                                   "ready", 500, FALSE)
          ELSE /\ items' = [items EXCEPT ![s.item] = Merge(@, s.snap_item, s.row_item)]
               /\ perf_log' = perf_log \o s.log
               /\ IF OrderItemHasUpdatedAt
                  THEN /\ sessions' = [sessions EXCEPT ![r].pc = "committed"]
                       /\ UNCHANGED <<nops, last>>
                  ELSE /\ nops' = nops + 1
                       /\ sessions' = [sessions EXCEPT ![r] = Answered(r, 500)]
                       /\ last' = Response("update", s.item, s.order, s.user, UNSET,
                                           "ready", 500, FALSE)

\* complete, lines 398-405, update, lines 306-316: the order and its items
\* are read again; if every item is ready the order is changed
order_reread(r) ==
    /\ sessions[r].pc = "committed"
    /\ UNCHANGED <<now, items, orders, perf_log, perfVars, stationVars, sioVars,
                   tables, bills>>
    /\ LET s == sessions[r]
           ord == orders[s.order]
           flips == /\ all_ready(s.order, items)
                    /\ s.op = "update" => ord.all_items_ready_at = NULL
       IN IF flips
          THEN /\ sessions' = [sessions EXCEPT
                                 ![r].pc = "dirty2",
                                 ![r].snap_order = ord,
                                 ![r].row_order =
                                     [ord EXCEPT !.all_items_ready_at = now,
                                                 !.kitchen_status = "all_ready",
                                                 !.status = "ready"]]
               /\ UNCHANGED <<nops, last>>
          ELSE /\ nops' = nops + 1
               /\ sessions' = [sessions EXCEPT ![r] =
                                 Answered(r, IF OrderItemHasUpdatedAt THEN 200 ELSE 500)]
               /\ last' = Response(s.op, s.item, s.order, s.user, NULL, "unset",
                                   IF OrderItemHasUpdatedAt THEN 200 ELSE 500,
                                   OrderItemHasUpdatedAt)

\* complete, line 406, update, line 317: db.commit() of the order
order_commit(r) ==
    /\ sessions[r].pc = "dirty2"
    /\ nops' = nops + 1
    /\ UNCHANGED <<now, items, perf_log, perfVars, stationVars, sioVars,
                   tables, bills>>
    /\ LET s == sessions[r]
       IN /\ orders' = [orders EXCEPT ![s.order] = Merge(@, s.snap_order, s.row_order)]
          /\ sessions' = [sessions EXCEPT ![r] =
                            Answered(r, IF OrderItemHasUpdatedAt THEN 200 ELSE 500)]
          /\ last' = Response(s.op, s.item, s.order, s.user, NULL, "unset",
                              IF OrderItemHasUpdatedAt THEN 200 ELSE 500,
                              OrderItemHasUpdatedAt)

NextConcurrent ==
    \/ Tick
    \/ \E i \in ReqItemIds, u \in Users : start_read(i, u)
    \/ \E r \in SessionIds : start_commit(r)
    \/ \E i \in ReqItemIds : complete_read(i, 1)
    \/ \E r \in SessionIds : complete_commit(r)
    \/ \E i \in ReqItemIds : update_read(i, 1)
    \/ \E r \in SessionIds : update_commit(r)
    \/ \E r \in SessionIds : order_reread(r)
    \/ \E r \in SessionIds : order_commit(r)

SpecConcurrent == Init /\ [][NextConcurrent]_vars

\* ============================ websocket.py: connection registry and rooms
\* connected_users[sid] is None while sid is not a key of the dict.  rooms is
\* the set of <<sid, room>> memberships kept by the Socket.IO server.
CHEF_ROOM == "chef_room"
STAFF_ROOM == "staff_room"
MANAGER_ROOM == "manager_room"
CUSTOMER_ROOM == "customer_room"
\* a string that was not sent, or a key that is not in a dict: falsy
Absent == ""

\* ROOM_MAPPING.get(role): Absent for a role that is not a key
ROOM_MAPPING(role) ==
    CASE role = "chef" -> CHEF_ROOM
      [] role = "staff" -> STAFF_ROOM
      [] role = "manager" -> MANAGER_ROOM
      [] role = "admin" -> MANAGER_ROOM
      [] role = "customer" -> CUSTOMER_ROOM
      [] OTHER -> Absent

RoleRooms == {CHEF_ROOM, STAFF_ROOM, MANAGER_ROOM, CUSTOMER_ROOM}

\* the roles a client may send: the five known ones, an unknown one, none
SentRoles == {"chef", "staff", "manager", "admin", "customer", "guest", Absent}

Live(sid) == sockets[sid] = "open"

connect(sid) ==
    /\ sockets[sid] = "new"
    /\ sockets' = [sockets EXCEPT ![sid] = "open"]
    /\ UNCHANGED <<connected_users, rooms, kdsVars, perfVars, stationVars, dbVars>>

\* data = {"user_id", "role", "username"}; ident: user_id and username sent
join_room(sid, role, ident) ==
    /\ Live(sid)
    /\ UNCHANGED <<sockets, kdsVars, perfVars, stationVars, dbVars>>
    /\ IF ~(ident /\ role # Absent)
       THEN UNCHANGED <<connected_users, rooms>>
       ELSE /\ connected_users' = [connected_users EXCEPT ![sid] = Some([role |-> role])]
            /\ rooms' = IF ROOM_MAPPING(role) # Absent
                        THEN rooms \cup {<<sid, ROOM_MAPPING(role)>>}
                        ELSE rooms

leave_room_handler(sid, room) ==
    /\ Live(sid)
    /\ UNCHANGED <<sockets, connected_users, kdsVars, perfVars, stationVars, dbVars>>
    /\ rooms' = IF room # Absent /\ connected_users[sid] # None
                THEN rooms \ {<<sid, room>>}
                ELSE rooms

\* the handler leaves the room of the registered role and deletes the entry;
\* the server then drops the sid from every room it is still in
disconnect(sid) ==
    /\ Live(sid)
    /\ sockets' = [sockets EXCEPT ![sid] = "closed"]
    /\ UNCHANGED <<kdsVars, perfVars, stationVars, dbVars>>
    /\ connected_users' = [connected_users EXCEPT ![sid] = None]
    /\ rooms' = {m \in rooms : m[1] # sid}

NextSockets ==
    \/ \E sid \in Sids : connect(sid)
    \/ \E sid \in Sids, role \in SentRoles, ident \in BOOLEAN : join_room(sid, role, ident)
    \/ \E sid \in Sids, room \in RoleRooms \cup {Absent} : leave_room_handler(sid, room)
    \/ \E sid \in Sids : disconnect(sid)

SpecSockets == Init /\ [][NextSockets]_vars

\* ================================================================ claims
\* a step that handles one request (Tick is the only other step)
Handled == nops' = nops + 1

\* the request just handled reached an existing item and was committed
Committed(l, op) == l.op = op /\ l.item \in ItemIds /\ l.code \notin {403, 404}

\* C1: once start(item) has been applied, a second start on the same item,
\* by the same or another chef and possibly later, leaves prep_start_time and
\* assigned_chef_id as the first start set them.
C1_SecondStartKeepsFirst ==
    [][(Committed(last, "start") /\ Handled /\ Committed(last', "start")
        /\ last'.item = last.item)
       => /\ items'[last.item].prep_start_time = items[last.item].prep_start_time
          /\ items'[last.item].assigned_chef_id = items[last.item].assigned_chef_id]_vars

\* C2: all_items_ready_at is written at most once: the write that first sets
\* it also sets kitchen_status "all_ready" and status "ready", and no later
\* operation changes its value.
C2_AllReadyAtWrittenOnce ==
    [][\A o \in OrderIds :
         /\ (orders[o].all_items_ready_at = NULL /\ orders'[o].all_items_ready_at # NULL)
              => (orders'[o].kitchen_status = "all_ready" /\ orders'[o].status = "ready")
         /\ orders[o].all_items_ready_at # NULL
              => orders'[o].all_items_ready_at = orders[o].all_items_ready_at]_vars

\* C3: for an order of at least two items that is in_progress, an update or
\* complete that leaves some item not ready leaves kitchen_status and a null
\* all_items_ready_at alone, and the update(status=ready) or complete that
\* makes the last remaining item ready sets kitchen_status "all_ready" in
\* that same operation.
C3_LastReadyFlipsOrder ==
    [][\A o \in OrderIds :
         (/\ Cardinality(order_items(o, items)) >= 2
          /\ orders[o].kitchen_status = "in_progress"
          /\ Handled
          /\ last'.order = o
          /\ \/ Committed(last', "complete")
             \/ Committed(last', "update") /\ last'.prep_status = "ready"
          /\ ~all_ready(o, items))
         => IF all_ready(o, items')
            THEN orders'[o].kitchen_status = "all_ready"
            ELSE /\ orders'[o].kitchen_status # "all_ready"
                 /\ orders'[o].all_items_ready_at = NULL]_vars

\* C4: bump(order) without station_id marks every item of the order "served"
\* whatever its previous prep_status, stamps bumped_at and sets
\* kitchen_status "bumped".
C4_BumpServesEveryItem ==
    [][(Handled /\ last'.op = "bump" /\ last'.order \in OrderIds /\ last'.station = NULL)
       => /\ \A j \in order_items(last'.order, items) : items'[j].prep_status = "served"
          /\ orders'[last'.order].bumped_at = now
          /\ orders'[last'.order].kitchen_status = "bumped"]_vars

C4_Witness ==
    /\ last.op = "bump" /\ last.order = 1 /\ last.station = NULL
    /\ orders[1].kitchen_status = "bumped" /\ orders[1].bumped_at # NULL
    /\ items[1].prep_status = "served" /\ items[1].prep_end_time # NULL
    /\ items[2].prep_status = "served" /\ items[2].prep_end_time = NULL

\* C5: bump(order, station_id = S) marks "served" exactly the items of the
\* order that are at station S and changes no other item, no item of another
\* order and no field of any order.
C5_StationBumpFrame ==
    [][(Handled /\ last'.op = "bump" /\ last'.order \in OrderIds /\ last'.station # NULL)
       => /\ \A j \in ItemIds :
               items'[j] = IF items[j].order_id = last'.order
                              /\ items[j].station_id = last'.station
                           THEN [items[j] EXCEPT !.prep_status = "served"]
                           ELSE items[j]
          /\ orders' = orders
          /\ perf_log' = perf_log]_vars

C5_Witness ==
    /\ last.op = "bump" /\ last.order = 1 /\ last.station = 1
    /\ items[1].station_id = 1 /\ items[1].prep_status = "served"
    /\ items[2].station_id = 2 /\ items[2].prep_status = "preparing"
    /\ items[3].station_id = 1 /\ items[3].prep_status = "pending"
    /\ orders[1].kitchen_status = "in_progress" /\ orders[1].bumped_at = NULL

\* the fields of an item that reassignment must not touch
ReassignFrame(a, b) ==
    /\ a.prep_status = b.prep_status
    /\ a.quantity = b.quantity
    /\ a.order_id = b.order_id
    /\ a.prep_start_time = b.prep_start_time
    /\ a.prep_end_time = b.prep_end_time

IsReassignedRow(row, i, station) ==
    /\ row.action = "reassigned"
    /\ row.order_item_id = i
    /\ row.station_id = station

\* C6 as claimed: a reassign of an existing item, with or without a station
\* before the call, moves it to the new station, keeps prep_status, quantity,
\* order_id and both prep timestamps, and appends exactly one "reassigned"
\* row carrying the old station.
C6_ReassignAlwaysLogs ==
    [][(Handled /\ Committed(last', "reassign"))
       => LET i == last'.item IN
          /\ items'[i].station_id = last'.station
          /\ ReassignFrame(items'[i], items[i])
          /\ Len(perf_log') = Len(perf_log) + 1
          /\ SubSeq(perf_log', 1, Len(perf_log)) = perf_log
          /\ IsReassignedRow(perf_log'[Len(perf_log')], i, items[i].station_id)]_vars

\* C6 amended: as above, but the "reassigned" row is appended only when the
\* item had a station before the call; an item without a station is moved
\* and nothing is logged.
C6_ReassignLogsOldStation ==
    [][(Handled /\ Committed(last', "reassign"))
       => LET i == last'.item IN
          /\ items'[i].station_id = last'.station
          /\ ReassignFrame(items'[i], items[i])
          /\ IF items[i].station_id # NULL
             THEN /\ Len(perf_log') = Len(perf_log) + 1
                  /\ SubSeq(perf_log', 1, Len(perf_log)) = perf_log
                  /\ IsReassignedRow(perf_log'[Len(perf_log')], i, items[i].station_id)
             ELSE perf_log' = perf_log]_vars

C6_Witness ==
    /\ Committed(last, "reassign") /\ last.item = 1 /\ last.station = 2
    /\ items[1].station_id = 2
    /\ Len(perf_log) > 0
    /\ IsReassignedRow(perf_log[Len(perf_log)], 1, 1)

\* C7 as claimed: in every reachable state an item whose prep_end_time is set
\* has prep_start_time set, and prep_start_time <= prep_end_time.
C7_EndImpliesStart ==
    \A i \in ItemIds :
        items[i].prep_end_time # NULL
            => /\ items[i].prep_start_time # NULL
               /\ items[i].prep_start_time <= items[i].prep_end_time

\* C7 amended: whenever an operation writes an item's prep_end_time, the
\* value written is not earlier than the item's prep_start_time if that is
\* set.  (prep_start_time may be unset, and a later start may move it past
\* prep_end_time.)
C7_EndWrittenNotBeforeStart ==
    [][\A i \in ItemIds :
         items'[i].prep_end_time # items[i].prep_end_time
            => \/ items'[i].prep_start_time = NULL
               \/ items'[i].prep_start_time <= items'[i].prep_end_time]_vars

C7_Witness ==
    /\ Committed(last, "complete") /\ last.item = 3
    /\ items[3].prep_start_time = 2 /\ items[3].prep_end_time = 2

\* C8 as claimed: in every reachable state an order whose kitchen_status is
\* "all_ready" has every non-cancelled item "ready".
C8_AllReadyImpliesItemsReady ==
    \A o \in OrderIds :
        orders[o].kitchen_status = "all_ready"
            => \A j \in order_items(o, items) :
                   items[j].prep_status \in {"ready", "cancelled"}

\* C8 amended: an operation that writes an order row and leaves its
\* kitchen_status "all_ready" leaves every item of that order "ready"; later
\* start, update and per-station bump operations may move items out of
\* "ready" while kitchen_status stays "all_ready".
C8_AllReadyWrittenWhenItemsReady ==
    [][\A o \in OrderIds :
         (orders'[o] # orders[o] /\ orders'[o].kitchen_status = "all_ready")
            => \A j \in order_items(o, items') : items'[j].prep_status = "ready"]_vars

C8_Witness ==
    /\ Committed(last, "complete") /\ last.item = 2
    /\ orders[1].kitchen_status = "all_ready" /\ orders[1].all_items_ready_at # NULL
    /\ items[1].prep_status = "ready" /\ items[2].prep_status = "ready"

\* position of a prep_status in pending < assigned < preparing < ready < served
Rank(st) ==
    CASE st = "pending" -> 0
      [] st = "assigned" -> 1
      [] st = "preparing" -> 2
      [] st = "ready" -> 3
      [] st = "served" -> 4
      [] OTHER -> 5

C10_Counted(s) ==
    {k \in 1..Len(pitems) :
        /\ pitems[k].station_id = s /\ pitems[k].prep_status = "ready"
        /\ pitems[k].prep_start_time > 0 /\ pitems[k].prep_end_time >= today_start
        /\ pitems[k].estimated_prep_time > 0}

\* a row is within its estimate plus the five-minute grace
C10_Within(k) ==
    pitems[k].prep_end_time - pitems[k].prep_start_time
        <= 60 * pitems[k].estimated_prep_time + 300

C10_Counts ==
    /\ perf.total_with_estimate = Cardinality(C10_Counted(perf.station_id))
    /\ perf.on_time_count =
          Cardinality({k \in C10_Counted(perf.station_id) : C10_Within(k)})
    /\ (pitems = <<PerfRow(1, "ready", T0, T0 + 720, 10)>> /\ perf.station_id = 1)
          => perf.on_time_count = 1 /\ perf.total_with_estimate = 1
    /\ (pitems = <<PerfRow(1, "ready", T0, T0 + 960, 10)>> /\ perf.station_id = 1)
          => perf.on_time_count = 0 /\ perf.total_with_estimate = 1

\* C10 as claimed: a completed item with start, end and estimate E is on time
\* exactly when its preparation took at most E + 5 minutes (12 minutes against
\* E = 10 is on time, 16 minutes is not), and on_time_percentage equals
\* 100 * on_time_count / number of such items, null when there are none.
C10_ExactPercentage ==
    ppc = "done" =>
        /\ C10_Counts
        /\ IF perf.total_with_estimate = 0
           THEN perf.on_time_percentage = None
           ELSE /\ Len(perf.on_time_percentage) = 1
                /\ perf.on_time_percentage[1] * perf.total_with_estimate
                      = 1000 * perf.on_time_count

\* C10 amended: the same, with on_time_percentage equal to
\* 100 * on_time_count / number of such items rounded to one decimal place.
C10_RoundedPercentage ==
    ppc = "done" =>
        /\ C10_Counts
        /\ IF perf.total_with_estimate = 0
           THEN perf.on_time_percentage = None
           ELSE /\ Len(perf.on_time_percentage) = 1
                /\ LET err == perf.on_time_percentage[1] * perf.total_with_estimate
                                 - 1000 * perf.on_time_count
                   IN 2 * err <= perf.total_with_estimate
                      /\ 2 * (0 - err) <= perf.total_with_estimate

C10_Witness ==
    /\ ppc = "done" /\ perf.station_id = 1
    /\ pitems = <<PerfRow(1, "ready", T0, T0 + 720, 10),
                  PerfRow(1, "ready", T0, T0 + 960, 10),
                  PerfRow(1, "ready", T0, T0 + 901, 10)>>
    /\ perf.on_time_count = 1 /\ perf.total_with_estimate = 3
    /\ perf.on_time_percentage = Some(333)

\* the request just handled named an item, order or station that has no row
MissingTarget(l) ==
    \/ l.op \in {"update", "start", "complete", "reassign"} /\ l.item \notin ItemIds
    \/ l.op = "bump" /\ l.order \notin OrderIds
    \/ /\ l.op \in {"get_station", "update_station", "get_station_performance"}
       /\ l.station \notin 1..Len(stations)

\* no order, item, station, display-settings or performance-log row changes
RowsUnchanged == UNCHANGED <<items, orders, perf_log, stations, settings>>

\* the caller's role fails the role check of the handler
RoleRefused(l) ==
    \/ l.op = "reassign" /\ UserRole(l.user) \notin {"admin", "manager", "chef"}
    \/ /\ l.op \in {"create_station", "update_station", "update_display_settings"}
       /\ UserRole(l.user) \notin {"admin", "manager"}

\* C11 as claimed: update, start, complete and reassign on an unknown item
\* id, bump on an unknown order id and station read, update and performance
\* on an unknown station id each answer 404, change no row and schedule no
\* broadcast.
C11_NotFoundIs404 ==
    [][(Handled /\ MissingTarget(last'))
       => /\ last'.code = 404
          /\ RowsUnchanged
          /\ ~last'.broadcast]_vars

\* C11 amended: the same for every caller that passes the handler's role
\* check; reassign by a caller who is not admin, manager or chef and station
\* update by a caller who is not admin or manager answer 403 instead, also
\* with no row changed and no broadcast.
C11_NotFoundAfterRoleCheck ==
    [][(Handled /\ MissingTarget(last'))
       => /\ last'.code = IF RoleRefused(last') THEN 403 ELSE 404
          /\ RowsUnchanged
          /\ ~last'.broadcast]_vars

C11_Witness ==
    /\ last.op = "update_station" /\ last.station = MissingStationId
    /\ last.user = 3 /\ last.code = 404
    /\ items[3].prep_status = "ready" /\ orders[2].kitchen_status = "all_ready"
    /\ \A s \in StationIds : stations[s].is_active

\* C12 as claimed: admin, manager and chef may each reassign items and
\* configure stations (create station, update station, update display
\* settings); any other role gets 403 with no row changed, whatever the
\* target, because the role is checked first.
C12_ChefMayConfigure ==
    [][(/\ Handled
        /\ last'.op \in {"reassign", "create_station", "update_station",
                         "update_display_settings"})
       => IF UserRole(last'.user) \in {"admin", "manager", "chef"}
          THEN last'.code # 403
          ELSE last'.code = 403 /\ RowsUnchanged]_vars

\* C12 amended: admin, manager and chef may reassign items; only admin and
\* manager may create a station, update a station or update display
\* settings.  A caller outside the permitted set gets 403 with no row
\* changed, whether or not the item or station named exists.
C12_RoleChecks ==
    [][(/\ Handled
        /\ last'.op \in {"reassign", "create_station", "update_station",
                         "update_display_settings"})
       => IF RoleRefused(last')
          THEN last'.code = 403 /\ RowsUnchanged
          ELSE last'.code # 403]_vars

C12_Witness ==
    /\ last.op = "create_station" /\ last.user = 1 /\ last.code = 403
    /\ items[1].station_id = NumStations
    /\ Len(perf_log) = 2
    /\ IsReassignedRow(perf_log[2], 1, 1) /\ perf_log[2].chef_id = 1
    /\ Len(stations) = NumStations

\* the request just handled reached an existing item or order and passed the
\* role check of its handler
ReachedTarget(l) ==
    \/ \E op \in {"update", "start", "complete", "reassign"} : Committed(l, op)
    \/ l.op = "bump" /\ l.order \in OrderIds

\* C14: every state transition is broadcast: each update, start, complete,
\* reassign and bump (whole-order or per-station) on an existing item or
\* order returns success and schedules a broadcast, and every change of an
\* order's kitchen_status to "all_ready" or "bumped" comes with a broadcast.
C14_EveryTransitionBroadcast ==
    [][/\ (Handled /\ ReachedTarget(last'))
          => (last'.code = 200 /\ last'.broadcast)
       /\ \A o \in OrderIds :
            (/\ orders'[o].kitchen_status # orders[o].kitchen_status
             /\ orders'[o].kitchen_status \in {"all_ready", "bumped"})
            => last'.broadcast]_vars

\* C15: the performance log is append-only: every step leaves the rows that
\* were there in place and unchanged, adding zero or more rows at the end,
\* and a request that fails (any outcome other than success) adds none.
C15_LogAppendOnly ==
    [][/\ Len(perf_log') >= Len(perf_log)
       /\ SubSeq(perf_log', 1, Len(perf_log)) = perf_log
       /\ (Handled /\ last'.code # 200) => perf_log' = perf_log]_vars

\* C16: after bump(order, station_id = S) the order is not in the active
\* orders listed for station S and is still listed for every other station
\* that listed it; after a whole-order bump the order is in no active-orders
\* list without status filter, of any station or of all stations.
C16_BumpRemovesTicket ==
    [][(Handled /\ last'.op = "bump" /\ last'.order \in OrderIds)
       => LET o == last'.order
              S == last'.station
          IN IF S # NULL
             THEN /\ o \notin get_active_orders(orders', items', S, NULL)
                  /\ \A s \in StationIds \ {S} :
                        o \in get_active_orders(orders, items, s, NULL)
                           => o \in get_active_orders(orders', items', s, NULL)
             ELSE \A s \in StationIds \cup {NULL} :
                        o \notin get_active_orders(orders', items', s, NULL)]_vars

\* C17: start on an item of an order whose kitchen_status is "pending" sets
\* kitchen_status "in_progress" and kitchen_received_at to the time of the
\* call; start on an item of an order that is in_progress, all_ready or
\* bumped leaves both alone; kitchen_received_at is written by nothing but
\* a start in that order, and only while it is unset.
C17_FirstStartReceivesOrder ==
    [][/\ (Handled /\ Committed(last', "start"))
          => LET o == last'.order IN
             /\ orders[o].kitchen_status = "pending"
                  => /\ orders'[o].kitchen_status = "in_progress"
                     /\ orders'[o].kitchen_received_at = now
             /\ orders[o].kitchen_status \in {"in_progress", "all_ready", "bumped"}
                  => /\ orders'[o].kitchen_status = orders[o].kitchen_status
                     /\ orders'[o].kitchen_received_at = orders[o].kitchen_received_at
       /\ \A o \in OrderIds :
            orders'[o].kitchen_received_at # orders[o].kitchen_received_at
               => /\ Committed(last', "start") /\ last'.order = o
                  /\ orders[o].kitchen_received_at = NULL]_vars

C17_Witness ==
    /\ Committed(last, "start") /\ last.item = 2 /\ now = 2
    /\ items[1].prep_start_time = 1 /\ items[2].prep_start_time = 2
    /\ orders[1].kitchen_status = "in_progress"
    /\ orders[1].kitchen_received_at = 1

\* the request just handled was update(prep_status = "ready") of an existing item
UpdatedReady(l) == Committed(l, "update") /\ l.prep_status = "ready"

\* C18: update(item, prep_status = "ready") on an existing item whose
\* prep_end_time is unset succeeds and sets prep_end_time to now; when
\* prep_start_time is set it appends exactly one "completed" row with
\* duration now - prep_start_time, with or without a station, and when
\* prep_start_time is unset it appends none; when prep_end_time is already
\* set it is left as it is and no row is appended.
C18_ReadySetsEndAndLogs ==
    [][(Handled /\ UpdatedReady(last'))
       => LET i == last'.item IN
          IF items[i].prep_end_time = NULL
          THEN /\ last'.code = 200
               /\ items'[i].prep_end_time = now
               /\ IF items[i].prep_start_time # NULL
                  THEN /\ Len(perf_log') = Len(perf_log) + 1
                       /\ SubSeq(perf_log', 1, Len(perf_log)) = perf_log
                       /\ perf_log'[Len(perf_log')].action = "completed"
                       /\ perf_log'[Len(perf_log')].order_item_id = i
                       /\ perf_log'[Len(perf_log')].duration_seconds
                             = now - items[i].prep_start_time
                  ELSE perf_log' = perf_log
          ELSE /\ items'[i].prep_end_time = items[i].prep_end_time
               /\ perf_log' = perf_log]_vars

\* C19: from every state, complete(item) and update(item, prep_status =
\* "ready") with its order recomputation, handled at the same time by the
\* same user, leave the same item rows, order rows and performance log.
C19_CompleteIsUpdateReady ==
    \A i \in ItemIds, u \in Users :
        LET c == complete_effect(i, u)
            r == update_effect(i, u, "ready", UNSET)
        IN /\ c.items = r.items
           /\ c.orders = r.orders
           /\ c.perf_log = r.perf_log

\* C20: complete, or update(prep_status = "ready"), on an item that was
\* never started succeeds: prep_status becomes "ready", prep_end_time is
\* set, prep_start_time stays null and no row is appended to the log.
C20_UnstartedCompleteSucceeds ==
    [][(/\ Handled
        /\ Committed(last', "complete") \/ UpdatedReady(last')
        /\ items[last'.item].prep_start_time = NULL)
       => LET i == last'.item IN
          /\ last'.code = 200
          /\ items'[i].prep_status = "ready"
          /\ items'[i].prep_end_time # NULL
          /\ items'[i].prep_start_time = NULL
          /\ perf_log' = perf_log]_vars

\* the rows of the log that record action a on item i
RowsOf(log, i, a) ==
    Cardinality({k \in 1..Len(log) : log[k].order_item_id = i /\ log[k].action = a})

\* C21: each significant transition of an item appends exactly one row:
\* every start of an existing item one "started" row, every transition to
\* "ready" one "completed" row, every change of station one "reassigned"
\* row; and no step adds a row of a kind without a transition of that kind.
C21_OneRowPerTransition ==
    [][Handled
       => \A i \in ItemIds :
            LET started == Committed(last', "start") /\ last'.item = i
                readied == items[i].prep_status # "ready" /\ items'[i].prep_status = "ready"
                moved == items'[i].station_id # items[i].station_id
                added(a) == RowsOf(perf_log', i, a) - RowsOf(perf_log, i, a)
            IN /\ added("started") = (IF started THEN 1 ELSE 0)
               /\ added("completed") = (IF readied THEN 1 ELSE 0)
               /\ added("reassigned") = (IF moved THEN 1 ELSE 0)]_vars

\* C26: a whole-order bump is final: once an order's kitchen_status is
\* "bumped" no later step changes it, and the order is not listed again in
\* the default active-orders view.
C26_BumpIsFinal ==
    [][\A o \in OrderIds :
          orders[o].kitchen_status = "bumped"
          => /\ orders'[o].kitchen_status = "bumped"
             /\ o \notin get_active_orders(orders', items', NULL, NULL)]_vars

\* C23: cancel_order succeeds only for an order that is pending or confirmed:
\* the order becomes cancelled, no other order changes, and its table
\* becomes available exactly when no other order of that table is pending,
\* confirmed, preparing, ready or served; for an order in any other status
\* the request answers 400 and leaves every order and table as it was.
C23_CancelOnlyBeforePreparation ==
    [][(Handled /\ last'.op = "cancel_order" /\ last'.order \in OrderIds)
       => LET o == last'.order
              held == \E p \in OrderIds \ {o} :
                         /\ orders[p].table_id = orders[o].table_id
                         /\ orders[p].status \in
                              {"pending", "confirmed", "preparing", "ready", "served"}
          IN IF orders[o].status \in {"pending", "confirmed"}
             THEN /\ last'.code = 200
                  /\ orders' = [orders EXCEPT ![o].status = "cancelled"]
                  /\ tables' = IF held THEN tables
                               ELSE [tables EXCEPT ![orders[o].table_id] = "available"]
             ELSE /\ last'.code = 400
                  /\ orders' = orders
                  /\ tables' = tables]_vars

\* order 1 was cancelled after order 2 had been completed: the table is free
C23_Witness ==
    /\ last.op = "cancel_order" /\ last.code = 200 /\ last.order = 1
    /\ orders[1].status = "cancelled"
    /\ orders[2].status = "completed"
    /\ tables[1] = "available"

\* a preparing order was refused and kept its status and its table
C23_WitnessRefused ==
    /\ last.op = "cancel_order" /\ last.code = 400
    /\ orders[last.order].status = "preparing"
    /\ tables[1] = "occupied"

\* C27: the item operations of the kitchen display never reactivate a
\* finished order: update, start, complete, bump and reassign leave the
\* status of an order that is cancelled, completed or served as it is.
C27_FinishedOrderStaysFinished ==
    [][(Handled /\ last'.op \in {"update", "start", "complete", "bump", "reassign"})
       => \A o \in OrderIds :
             orders[o].status \in {"cancelled", "completed", "served"}
             => orders'[o].status = orders[o].status]_vars

BillsOf(o) == {k \in 1..Len(bills) : bills[k].order_id = o}

\* C29: whatever update_order_status requests ran, one after the other or
\* two at a time, an order has at most one bill, and the bill's subtotal is
\* the total_amount of its order (which no modelled handler changes after
\* the order is created).
C29_AtMostOneBill ==
    \A o \in OrderIds :
       /\ Cardinality(BillsOf(o)) <= 1
       /\ \A k \in BillsOf(o) : bills[k].subtotal = orders[o].total_amount

\* two requests set order 1 to served at the same time: both found no bill,
\* one committed its bill and the other was rolled back
C29_Witness ==
    /\ Len(bills) = 1
    /\ bills[1].order_id = 1
    /\ orders[1].status = "served"
    /\ \E r, q \in SessionIds :
          /\ sessions[r].pc = "done" /\ sessions[q].pc = "done"
          /\ sessions[r].op = "update_order_status"
          /\ sessions[q].op = "update_order_status"
          /\ sessions[r].order = 1 /\ sessions[q].order = 1
          /\ sessions[r].code = 200 /\ sessions[q].code = 500

\* the role rooms a sid is a member of
RoleRoomsOf(sid) == {room \in RoleRooms : <<sid, room>> \in rooms}

\* C28: the registry is consistent with room membership: every sid in
\* connected_users has a role that maps to a room and is a member of exactly
\* that one role room; a sid that is not in connected_users (never joined,
\* or disconnected) is in no role room.
C28_RegistryMatchesRooms ==
    \A sid \in Sids :
       IF connected_users[sid] # None
       THEN /\ ROOM_MAPPING(connected_users[sid][1].role) # Absent
            /\ RoleRoomsOf(sid) = {ROOM_MAPPING(connected_users[sid][1].role)}
       ELSE RoleRoomsOf(sid) = {}

\* the step in which the start request of session r commits
StartCommits(r) ==
    /\ sessions[r].pc = "dirty" /\ sessions[r].op = "start"
    /\ sessions'[r].pc = "done"

\* C22: two start requests of two chefs on one item that both loaded it
\* before either committed both succeed, and the commit of the second leaves the item with
\* its own assigned_chef_id and prep_start_time (last write wins) and the
\* item and its order as if the second request had run after the first.
C22_ConcurrentStartsSerialize ==
    [][\A r, q \in SessionIds :
          (/\ r # q
           /\ StartCommits(r)
           /\ sessions[q].pc = "done" /\ sessions[q].op = "start"
           /\ sessions[q].item = sessions[r].item
           /\ sessions[q].user # sessions[r].user
           /\ sessions[q].snap_item = sessions[r].snap_item)
          => LET i == sessions[r].item
                 o == sessions[r].order
                 u == sessions[r].user
                 t == sessions[r].row_item.prep_start_time
             IN /\ sessions[q].code = 200
                /\ sessions'[r].code = 200
                /\ items'[i].assigned_chef_id = u
                /\ items'[i].prep_start_time = t
                /\ items'[i] = StartedItem(items[i], t, u)
                /\ orders'[o] = StartedOrder(orders[o], t)]_vars

\* C24: when the last two items of an order that were not ready have been
\* made ready by two requests (complete or update with prep_status "ready")
\* and both requests are finished, the order has kitchen_status "all_ready",
\* status "ready" and all_items_ready_at set.
C24_ConcurrentReadyFlipsOrder ==
    \A r, q \in SessionIds :
       (/\ r # q
        /\ sessions[r].pc = "done" /\ sessions[q].pc = "done"
        /\ sessions[r].op \in {"complete", "update"}
        /\ sessions[q].op \in {"complete", "update"}
        /\ sessions[r].order = sessions[q].order
        /\ sessions[r].item # sessions[q].item
        /\ sessions[r].snap_item.prep_status # "ready"
        /\ sessions[q].snap_item.prep_status # "ready"
        /\ InFlight = 0
        /\ all_ready(sessions[r].order, items))
       => LET ord == orders[sessions[r].order]
          IN /\ ord.kitchen_status = "all_ready"
             /\ ord.status = "ready"
             /\ ord.all_items_ready_at # NULL

\* C25: in every reachable state, whatever the order of the steps of the
\* start and complete requests, an order that has both kitchen_received_at
\* and all_items_ready_at has kitchen_received_at <= all_items_ready_at.
C25_ReceivedBeforeAllReady ==
    \A o \in OrderIds :
       (orders[o].kitchen_received_at # NULL /\ orders[o].all_items_ready_at # NULL)
       => orders[o].kitchen_received_at <= orders[o].all_items_ready_at

====
